---- MODULE Spec2Model ----
(***************************************************************************)
(* Model of inventory_system.py: the SQLite-backed product and user store  *)
(* (init_db, fetch_products, insert_product, update_product,               *)
(* delete_product, check_credentials) and the InventoryApp handlers that   *)
(* drive it.                                                               *)
(*                                                                         *)
(* Text is a sequence of one-element strings (characters); SQL NULL is the *)
(* value NULL below, which is no text.  Prices are counted in cents (the   *)
(* price spin box has two decimals).                                       *)
(***************************************************************************)
EXTENDS Integers, Sequences, FiniteSets, TLC

VARIABLES
    schema,          \* the products and users tables exist in mini_inventory.db
    products,        \* rows of table products
    seq,             \* sqlite_sequence entry of products (AUTOINCREMENT)
    users,           \* rows of table users
    last,            \* the last call or handler: its arguments and what came of it
    assigned,        \* every product id handed out so far (history)
    first_run,       \* whether init_db has run, and the users it left (history)
    pc,              \* where the process is: "start", "login", "setup_ui",
                     \* "main", "exited", or "crashed" by an exception
    search_input,    \* InventoryApp.search_input text
    name_input,      \* InventoryApp.name_input text
    category_input,  \* InventoryApp.category_input text
    quantity_input,  \* InventoryApp.quantity_input value
    price_input,     \* InventoryApp.price_input value, in cents
    selected,        \* InventoryApp._selected_product_id, 0 for None
    table,           \* rows shown in InventoryApp.table
    dashboard        \* the three totals and the chart data of the dashboard tab

dbVars == <<schema, products, seq, users, assigned, first_run>>
uiVars == <<pc, search_input, name_input, category_input, quantity_input,
            price_input, selected, table, dashboard>>
vars == <<schema, products, seq, users, last, assigned, first_run, pc, search_input,
          name_input, category_input, quantity_input, price_input, selected,
          table, dashboard>>

----------------------------------------------------------------------------
(* Bounds *)

\* highest product id handed out in a run
MaxSeq == 2
\* number of distinct clock readings (datetime.now() at one-second resolution)
MaxTime == 2
\* longest search text tried
MaxFilterLen == 2
\* rows added on top of the stored ones when the dashboard is computed
MaxExtra == 2

----------------------------------------------------------------------------
(* Values *)

NULL == <<"<NULL>">>

Max(a, b) == IF a >= b THEN a ELSE b
Min(a, b) == IF a <= b THEN a ELSE b

\* characters search texts are made of
FilterChars == {"W", "w", "_", "%"}

RECURSIVE TextsUpTo(_, _)
TextsUpTo(chars, n) ==
    IF n = 0 THEN {<<>>}
    ELSE LET shorter == TextsUpTo(chars, n - 1)
         IN  shorter \cup {Append(s, c) : s \in shorter, c \in chars}

Filters == TextsUpTo(FilterChars, MaxFilterLen)

\* arguments the store functions are called with
\* (name, category, quantity, price); the store itself accepts an empty name,
\* a NULL category and negative numbers, and rejects a NULL name
ArgFields ==
    { [name |-> <<"W", "i">>, category |-> NULL,     quantity |-> 2,  price |-> 250],
      [name |-> <<"w">>,      category |-> <<"i">>,  quantity |-> -1, price |-> 0],
      [name |-> <<>>,         category |-> <<>>,     quantity |-> 2,  price |-> 0],
      [name |-> NULL,         category |-> <<"i">>,  quantity |-> 2,  price |-> 250] }
Times == 1..MaxTime
ProductIds == 1..(MaxSeq + 1)

----------------------------------------------------------------------------
(* SQLite's LIKE operator, as used by fetch_products *)

\* a comparison that keeps the case of letters
sqlite_keep_case(c) == c

\* LIKE folds the case of ASCII letters only
sqlite_fold(c) ==
    CASE c = "W" -> "w"
      [] c = "I" -> "i"
      [] OTHER -> c

RECURSIVE like(_, _)
like(pattern, text) ==
    IF pattern = <<>> THEN text = <<>>
    ELSE IF Head(pattern) = "%"
         THEN \E k \in 0..Len(text) :
                  like(Tail(pattern), SubSeq(text, k + 1, Len(text)))
         ELSE /\ text # <<>>
              /\ \/ Head(pattern) = "_"
                 \/ sqlite_fold(Head(pattern)) = sqlite_fold(Head(text))
              /\ like(Tail(pattern), Tail(text))

\* column LIKE ? : NULL LIKE anything is NULL, which WHERE treats as false
column_like(value, pattern) == value # NULL /\ like(pattern, value)

----------------------------------------------------------------------------
(* The store functions *)

Ids(rows) == {r.id : r \in rows}

MaxId(rows) == IF rows = {} THEN 0 ELSE CHOOSE i \in Ids(rows) : \A j \in Ids(rows) : j <= i

\* ORDER BY id DESC
RECURSIVE order_by_id_desc(_)
order_by_id_desc(rows) ==
    IF rows = {} THEN <<>>
    ELSE LET top == CHOOSE r \in rows : \A q \in rows : q.id <= r.id
         IN  <<top>> \o order_by_id_desc(rows \ {top})

\* the rows fetch_products(search_text) returns
fetch_rows(rows, search_text) ==
    IF search_text # <<>>
    THEN LET pattern == <<"%">> \o search_text \o <<"%">>
         IN  order_by_id_desc({r \in rows : \/ column_like(r.name, pattern)
                                           \/ column_like(r.category, pattern)})
    ELSE order_by_id_desc(rows)

\* id INTEGER PRIMARY KEY without AUTOINCREMENT: one more than the largest id
\* now in the table
rowid_of_plain_primary_key(rows, sequence) == MaxId(rows) + 1

\* id INTEGER PRIMARY KEY AUTOINCREMENT: one more than the largest id ever used
autoincrement(rows, sequence) == Max(sequence, MaxId(rows)) + 1

\* the INSERT of insert_product succeeds: the table exists and name is NOT NULL
insert_succeeds(name) == schema /\ name # NULL

inserted_rows(rows, id, name, category, quantity, price, now) ==
    rows \cup {[id |-> id, name |-> name, category |-> category,
                quantity |-> quantity, price |-> price, added_on |-> now]}

\* an update that reports whether a row was affected
update_reports_rowcount(rows, product_id, name) ==
    schema /\ name # NULL /\ product_id \in Ids(rows)

\* the UPDATE of update_product succeeds: the table exists and name is NOT NULL
\* in every row it touches
update_succeeds(rows, product_id, name) ==
    schema /\ (name = NULL => product_id \notin Ids(rows))

\* UPDATE without its WHERE clause
updated_every_row(rows, product_id, name, category, quantity, price) ==
    {[r EXCEPT !.name = name, !.category = category,
               !.quantity = quantity, !.price = price] : r \in rows}

updated_rows(rows, product_id, name, category, quantity, price) ==
    {IF r.id = product_id
     THEN [r EXCEPT !.name = name, !.category = category,
                    !.quantity = quantity, !.price = price]
     ELSE r : r \in rows}

\* the DELETE of delete_product succeeds: the table exists
delete_succeeds(rows, product_id) == schema

\* DELETE without its WHERE clause
deleted_every_row(rows, product_id) == {}

deleted_rows(rows, product_id) == {r \in rows : r.id # product_id}

\* hashlib.sha256(password.encode()).hexdigest(), first eight digits
sha256_hexdigest(password) ==
    CASE password = <<"admin123">> -> "240be518"
      [] password = <<"wrong">> -> "8810ad58"
      [] password = <<"admin">> -> "8c6976e5"
      [] password = <<>> -> "e3b0c442"
      [] OTHER -> "ffffffff"

\* a lookup by username alone
username_match(rows, username, password) ==
    \E u \in rows : u.username = username

\* SELECT id FROM users WHERE username=? AND password_hash=? finds a row
credentials_match(rows, username, password) ==
    \E u \in rows : u.username = username /\ u.password_hash = sha256_hexdigest(password)

default_admin == [id |-> 1, username |-> <<"admin">>,
                  password_hash |-> sha256_hexdigest(<<"admin123">>)]

\* INSERT OR REPLACE: the colliding rows give way to the new one
insert_or_replace(rows, row) ==
    {u \in rows : u.id # row.id /\ u.username # row.username} \cup {row}

\* INSERT OR IGNORE INTO users (id, username, password_hash): the row is
\* dropped when it collides on the primary key or on the unique username
insert_or_ignore(rows, row) ==
    IF \E u \in rows : u.id = row.id \/ u.username = row.username
    THEN rows
    ELSE rows \cup {row}

----------------------------------------------------------------------------
(* The store functions called directly *)

\* what init_db does to the database file
init_db_statements ==
    /\ schema' = TRUE
    /\ users' = insert_or_ignore(users, default_admin)
    /\ first_run' = IF first_run.done THEN first_run
                     ELSE [done |-> TRUE, users |-> users']
    /\ UNCHANGED <<products, seq, assigned>>

init_db ==
    /\ init_db_statements
    /\ last' = [op |-> "init_db", raised |-> FALSE, rerun |-> first_run.done]
    /\ UNCHANGED uiVars

fetch_products(search_text) ==
    /\ last' = IF schema
               THEN [op |-> "fetch_products", search_text |-> search_text,
                     raised |-> FALSE, rows |-> fetch_rows(products, search_text)]
               ELSE [op |-> "fetch_products", search_text |-> search_text,
                     raised |-> TRUE, rows |-> <<>>]
    /\ UNCHANGED dbVars
    /\ UNCHANGED uiVars

insert_product(name, category, quantity, price, now) ==
    LET id == autoincrement(products, seq)
        ok == insert_succeeds(name)
    IN  /\ id <= MaxSeq
        /\ products' = IF ok
                       THEN inserted_rows(products, id, name, category, quantity, price, now)
                       ELSE products
        /\ seq' = IF ok THEN id ELSE seq
        /\ assigned' = IF ok THEN assigned \cup {id} ELSE assigned
        /\ last' = [op |-> "insert_product", id |-> id, name |-> name,
                    category |-> category, quantity |-> quantity, price |-> price,
                    raised |-> FALSE, result |-> ok]
        /\ UNCHANGED <<schema, users, first_run>>
        /\ UNCHANGED uiVars

update_product(product_id, name, category, quantity, price) ==
    LET ok == update_succeeds(products, product_id, name)
    IN  /\ products' = IF ok
                       THEN updated_rows(products, product_id, name, category, quantity, price)
                       ELSE products
        /\ last' = [op |-> "update_product", id |-> product_id, name |-> name,
                    category |-> category, quantity |-> quantity, price |-> price,
                    rowcount |-> IF ok THEN Cardinality({r \in products : r.id = product_id})
                                 ELSE 0,
                    raised |-> FALSE, result |-> ok]
        /\ UNCHANGED <<schema, seq, users, assigned, first_run>>
        /\ UNCHANGED uiVars

delete_product(product_id) ==
    LET ok == delete_succeeds(products, product_id)
    IN  /\ products' = IF ok THEN deleted_rows(products, product_id) ELSE products
        /\ last' = [op |-> "delete_product", id |-> product_id,
                    rowcount |-> IF ok THEN Cardinality({r \in products : r.id = product_id})
                                 ELSE 0,
                    raised |-> FALSE, result |-> ok]
        /\ UNCHANGED <<schema, seq, users, assigned, first_run>>
        /\ UNCHANGED uiVars

check_credentials(username, password) ==
    /\ last' = IF schema
               THEN [op |-> "check_credentials", username |-> username,
                     password |-> password, raised |-> FALSE,
                     result |-> credentials_match(users, username, password)]
               ELSE [op |-> "check_credentials", username |-> username,
                     password |-> password, raised |-> TRUE, result |-> FALSE]
    /\ UNCHANGED dbVars
    /\ UNCHANGED uiVars

----------------------------------------------------------------------------
(* Initial state: the database file as the process finds it *)

Usernames == {<<"admin">>, <<"bob">>}
Passwords == {<<"admin123">>, <<"wrong">>, <<"admin">>}

\* users tables an earlier installation may have left behind
PriorUsers ==
    { {},
      {default_admin},
      {[id |-> 1, username |-> <<"bob">>, password_hash |-> sha256_hexdigest(<<"wrong">>)]},
      {[id |-> 2, username |-> <<"admin">>, password_hash |-> sha256_hexdigest(<<"admin">>)]} }

no_dashboard == [total_products |-> 0, total_quantity |-> 0, total_value |-> 0,
                 top_counts |-> <<>>]

InitUi ==
    /\ pc = "start"
    /\ search_input = <<>>
    /\ name_input = <<>>
    /\ category_input = <<>>
    /\ quantity_input = 0
    /\ price_input = 0
    /\ selected = 0
    /\ table = <<>>
    /\ dashboard = no_dashboard

\* a new database file, or one an earlier run of the program left without
\* products
Init ==
    /\ schema \in BOOLEAN
    /\ users = (IF schema THEN {default_admin} ELSE {})
    /\ products = {}
    /\ seq = 0
    /\ assigned = {}
    /\ first_run = [done |-> FALSE, users |-> {}]
    /\ last = [op |-> "none", raised |-> FALSE]
    /\ InitUi

\* the functions that write products, called in any order
Next ==
    \/ init_db
    \/ \E a \in ArgFields, t \in Times :
          insert_product(a.name, a.category, a.quantity, a.price, t)
    \/ \E i \in ProductIds, a \in ArgFields :
          update_product(i, a.name, a.category, a.quantity, a.price)
    \/ \E i \in ProductIds : delete_product(i)

Spec == Init /\ [][Next]_vars

\* fetch_products over the stores of up to MaxSeq rows
\* (name, category) of the stored rows
FetchTexts ==
    { <<<<"W", "i">>, NULL>>, <<<<"w">>, <<>>>>, <<<<>>, <<"W">>>>, <<<<>>, <<>>>> }

FetchRow(id, texts) ==
    [id |-> id, name |-> texts[1], category |-> texts[2], quantity |-> 2,
     price |-> 250, added_on |-> 1]

FetchStores ==
    UNION {{{FetchRow(i, texts[i]) : i \in present} :
            texts \in [present -> FetchTexts]} :
           present \in SUBSET (1..MaxSeq)}

InitFetch ==
    /\ schema \in BOOLEAN
    /\ users = (IF schema THEN {default_admin} ELSE {})
    /\ products \in (IF schema THEN FetchStores ELSE {{}})
    /\ seq = MaxId(products)
    /\ assigned = Ids(products)
    /\ first_run = [done |-> FALSE, users |-> {}]
    /\ last = [op |-> "none", raised |-> FALSE]
    /\ InitUi

NextFetch == \E s \in Filters : fetch_products(s)

SpecFetch == InitFetch /\ [][NextFetch]_vars

\* init_db and check_credentials over the users tables an installation may
\* hold, with products coming and going
AuthFields ==
    { [name |-> <<"w">>, category |-> <<>>, quantity |-> 2, price |-> 250] }

InitAuth ==
    /\ schema \in BOOLEAN
    /\ users \in (IF schema THEN PriorUsers ELSE {{}})
    /\ products = {}
    /\ seq = 0
    /\ assigned = {}
    /\ first_run = [done |-> FALSE, users |-> {}]
    /\ last = [op |-> "none", raised |-> FALSE]
    /\ InitUi

NextAuth ==
    \/ init_db
    \/ \E u \in Usernames, p \in Passwords : check_credentials(u, p)
    \/ \E a \in AuthFields :
          insert_product(a.name, a.category, a.quantity, a.price, 1)
    \/ \E i \in ProductIds, a \in AuthFields :
          update_product(i, a.name, a.category, a.quantity, a.price)
    \/ \E i \in ProductIds : delete_product(i)

SpecAuth == InitAuth /\ [][NextAuth]_vars

----------------------------------------------------------------------------
(* The dashboard *)

TopN == 8

Uncategorized == <<"U", "n", "c", "a", "t", "e", "g", "o", "r", "i", "z", "e", "d">>

\* r[2] or "Uncategorized"
category_label(category) ==
    IF category = NULL \/ category = <<>> THEN Uncategorized ELSE category

\* sum(values), left to right
RECURSIVE sum(_)
sum(values) ==
    IF values = <<>> THEN 0
    ELSE sum(SubSeq(values, 1, Len(values) - 1)) + values[Len(values)]

\* the keys of Counter(labels), in the order they were first met
RECURSIVE counter_keys(_)
counter_keys(labels) ==
    IF labels = <<>> THEN <<>>
    ELSE LET before == counter_keys(SubSeq(labels, 1, Len(labels) - 1))
             label == labels[Len(labels)]
         IN  IF \E k \in 1..Len(before) : before[k] = label
             THEN before
             ELSE Append(before, label)

\* Counter(labels).items(): (label, count) pairs
counter_items(labels) ==
    LET keys == counter_keys(labels)
    IN  [k \in 1..Len(keys) |->
            <<keys[k], Cardinality({j \in 1..Len(labels) : labels[j] = keys[k]})>>]

\* sorted(items, key=count, reverse=True): stable, so equal counts keep
\* their order
RECURSIVE sorted_by_count_desc(_)
sorted_by_count_desc(items) ==
    IF items = <<>> THEN <<>>
    ELSE LET best == CHOOSE k \in 1..Len(items) :
                        /\ \A j \in 1..Len(items) : items[j][2] <= items[k][2]
                        /\ \A j \in 1..(k - 1) : items[j][2] < items[k][2]
             rest == [j \in 1..(Len(items) - 1) |->
                        IF j < best THEN items[j] ELSE items[j + 1]]
         IN  <<items[best]>> \o sorted_by_count_desc(rest)

\* the first n items, unsorted
first_items(items, n) == SubSeq(items, 1, Min(n, Len(items)))

\* Counter.most_common(n)
most_common(items, n) ==
    LET sorted == sorted_by_count_desc(items)
    IN  SubSeq(sorted, 1, Min(n, Len(sorted)))

\* a dashboard computed from the rows the search shows
dashboard_of_shown_rows(rows, search_text) ==
    LET listed == fetch_rows(rows, search_text)
    IN  [total_products |-> Len(listed),
         total_quantity |-> sum([k \in 1..Len(listed) |-> listed[k].quantity]),
         total_value |-> sum([k \in 1..Len(listed) |->
                                 listed[k].quantity * listed[k].price]),
         top_counts |-> most_common(counter_items(
                            [k \in 1..Len(listed) |-> category_label(listed[k].category)]),
                            TopN)]

\* what update_dashboard shows: it fetches all rows, whatever the search text
update_dashboard(rows, search_text) ==
    LET listed == fetch_rows(rows, <<>>)
    IN  [total_products |-> Len(listed),
         total_quantity |-> sum([k \in 1..Len(listed) |-> listed[k].quantity]),
         total_value |-> sum([k \in 1..Len(listed) |->
                                 listed[k].quantity * listed[k].price]),
         top_counts |-> most_common(counter_items(
                            [k \in 1..Len(listed) |-> category_label(listed[k].category)]),
                            TopN)]

----------------------------------------------------------------------------
(* The windows *)

QuantityMax == 1000000
PriceMax == 1000000000

\* str.strip()
RECURSIVE strip(_)
strip(text) ==
    IF text # <<>> /\ Head(text) = " " THEN strip(Tail(text))
    ELSE IF text # <<>> /\ text[Len(text)] = " "
         THEN strip(SubSeq(text, 1, Len(text) - 1))
         ELSE text

\* a spin box that takes any value
unbounded_value(value, minimum, maximum) == value

\* QSpinBox / QDoubleSpinBox keep their value inside setRange(minimum, maximum)
spin_value(value, minimum, maximum) == Max(minimum, Min(value, maximum))

\* what the user puts into the form: (name, category, quantity, price)
FormEntries ==
    { [name |-> <<" ", "W", "i", " ">>, category |-> <<"I", " ">>,
       quantity |-> 2, price |-> 250],
      [name |-> <<"w">>, category |-> <<>>, quantity |-> -1, price |-> -1],
      [name |-> <<" ">>, category |-> <<"I">>, quantity |-> 1000001, price |-> 0] }

SearchTexts == {<<>>, <<"w">>, <<"I", " ">>}

LoginTexts == {<<>>, <<" ", "admin">>, <<"bob">>, <<"admin123", " ">>, <<"wrong">>}

\* load_table with the store holding rows: fill the table from the search
\* text, drop the selection, refresh the dashboard
load_table(rows, search_text) ==
    /\ table' = fetch_rows(rows, strip(search_text))
    /\ selected' = 0
    /\ dashboard' = update_dashboard(rows, strip(search_text))

clear_form_fields ==
    /\ selected' = 0
    /\ name_input' = <<>>
    /\ category_input' = <<>>
    /\ quantity_input' = 0
    /\ price_input' = 0

\* main(): init_db, then the login dialog
main ==
    /\ pc = "start"
    /\ init_db_statements
    /\ pc' = "login"
    /\ last' = [op |-> "main", raised |-> FALSE]
    /\ UNCHANGED <<search_input, name_input, category_input, quantity_input,
                   price_input, selected, table, dashboard>>

\* LoginDialog.handle_login; on success main() goes on to build InventoryApp,
\* whose setup_ui ends with load_table
handle_login(username_text, password_text) ==
    LET user == strip(username_text)
        pwd == strip(password_text)
        accepted == user # <<>> /\ pwd # <<>> /\ credentials_match(users, user, pwd)
    IN  /\ pc = "login"
        /\ last' = [op |-> "handle_login", raised |-> FALSE, result |-> accepted]
        /\ IF accepted
           THEN /\ pc' = "main"
                /\ search_input' = <<>>
                /\ name_input' = <<>>
                /\ category_input' = <<>>
                /\ quantity_input' = spin_value(0, 0, QuantityMax)
                /\ price_input' = spin_value(0, 0, PriceMax)
                /\ load_table(products, <<>>)
           ELSE UNCHANGED uiVars
        /\ UNCHANGED dbVars

\* Cancel in the login dialog, or closing the main window
quit ==
    /\ pc \in {"login", "main"}
    /\ pc' = "exited"
    /\ last' = [op |-> "quit", raised |-> FALSE]
    /\ UNCHANGED <<search_input, name_input, category_input, quantity_input,
                   price_input, selected, table, dashboard>>
    /\ UNCHANGED dbVars

\* the user edits the four form widgets
edit_form(entry) ==
    /\ pc = "main"
    /\ name_input' = entry.name
    /\ category_input' = entry.category
    /\ quantity_input' = spin_value(entry.quantity, 0, QuantityMax)
    /\ price_input' = spin_value(entry.price, 0, PriceMax)
    /\ last' = [op |-> "edit_form", raised |-> FALSE]
    /\ UNCHANGED <<pc, search_input, selected, table, dashboard>>
    /\ UNCHANGED dbVars

\* search_input.textChanged is connected to load_table
search(text) ==
    /\ pc = "main"
    /\ text # search_input
    /\ search_input' = text
    /\ load_table(products, text)
    /\ last' = [op |-> "search", raised |-> FALSE]
    /\ UNCHANGED <<pc, name_input, category_input, quantity_input, price_input>>
    /\ UNCHANGED dbVars

table_row_clicked(row) ==
    /\ pc = "main"
    /\ row \in 1..Len(table)
    /\ selected' = table[row].id
    /\ name_input' = table[row].name
    /\ category_input' = IF table[row].category = NULL THEN <<>> ELSE table[row].category
    /\ quantity_input' = spin_value(IF table[row].quantity >= 0 THEN table[row].quantity
                                    ELSE 0, 0, QuantityMax)
    /\ price_input' = spin_value(table[row].price, 0, PriceMax)
    /\ last' = [op |-> "table_row_clicked", raised |-> FALSE]
    /\ UNCHANGED <<pc, search_input, table, dashboard>>
    /\ UNCHANGED dbVars

handle_add(now) ==
    LET name == strip(name_input)
        id == autoincrement(products, seq)
        ok == name # <<>> /\ insert_succeeds(name)
    IN  /\ pc = "main"
        /\ name # <<>> => id <= MaxSeq
        /\ products' = IF ok
                       THEN inserted_rows(products, id, name, strip(category_input),
                                          quantity_input, price_input, now)
                       ELSE products
        /\ seq' = IF ok THEN id ELSE seq
        /\ assigned' = IF ok THEN assigned \cup {id} ELSE assigned
        /\ last' = IF ok
                   THEN [op |-> "handle_add", raised |-> FALSE, result |-> TRUE,
                         now |-> now]
                   ELSE [op |-> "handle_add", raised |-> FALSE, result |-> FALSE]
        /\ IF ok
           THEN clear_form_fields /\ load_table(products', search_input)
           ELSE UNCHANGED <<name_input, category_input, quantity_input, price_input,
                            selected, table, dashboard>>
        /\ UNCHANGED <<schema, users, first_run, pc, search_input>>

handle_update ==
    LET name == strip(name_input)
        ok == /\ selected # 0
              /\ name # <<>>
              /\ update_succeeds(products, selected, name)
    IN  /\ pc = "main"
        /\ products' = IF ok
                       THEN updated_rows(products, selected, name, strip(category_input),
                                         quantity_input, price_input)
                       ELSE products
        /\ last' = [op |-> "handle_update", raised |-> FALSE, result |-> ok,
                    id |-> selected]
        /\ IF ok
           THEN clear_form_fields /\ load_table(products', search_input)
           ELSE UNCHANGED <<name_input, category_input, quantity_input, price_input,
                            selected, table, dashboard>>
        /\ UNCHANGED <<schema, seq, users, assigned, first_run, pc, search_input>>

handle_delete(confirmed) ==
    LET ok == /\ selected # 0
              /\ confirmed
              /\ delete_succeeds(products, selected)
    IN  /\ pc = "main"
        /\ products' = IF ok THEN deleted_rows(products, selected) ELSE products
        /\ last' = [op |-> "handle_delete", raised |-> FALSE, result |-> ok,
                    id |-> selected]
        /\ IF ok
           THEN clear_form_fields /\ load_table(products', search_input)
           ELSE UNCHANGED <<name_input, category_input, quantity_input, price_input,
                            selected, table, dashboard>>
        /\ UNCHANGED <<schema, seq, users, assigned, first_run, pc, search_input>>

clear_form ==
    /\ pc = "main"
    /\ clear_form_fields
    /\ last' = [op |-> "clear_form", raised |-> FALSE]
    /\ UNCHANGED <<pc, search_input, table, dashboard>>
    /\ UNCHANGED dbVars

\* export_csv and export_excel: the rows the search shows go to the file the
\* user picks, if there are rows and a file was picked
export(picked) ==
    LET rows == fetch_rows(products, strip(search_input))
    IN  /\ pc = "main"
        /\ last' = [op |-> "export", raised |-> FALSE,
                    written |-> IF rows # <<>> /\ picked THEN rows ELSE <<>>]
        /\ UNCHANGED uiVars
        /\ UNCHANGED dbVars

\* logout closes the window and calls main() again
logout(confirmed) ==
    /\ pc = "main"
    /\ last' = [op |-> "logout", raised |-> FALSE, result |-> confirmed]
    /\ IF confirmed
       THEN /\ init_db_statements
            /\ pc' = "login"
            /\ search_input' = <<>>
            /\ name_input' = <<>>
            /\ category_input' = <<>>
            /\ quantity_input' = 0
            /\ price_input' = 0
            /\ selected' = 0
            /\ table' = <<>>
            /\ dashboard' = no_dashboard
       ELSE UNCHANGED uiVars /\ UNCHANGED dbVars

NextUI ==
    \/ main
    \/ \E u \in LoginTexts, p \in LoginTexts : handle_login(u, p)
    \/ quit
    \/ \E e \in FormEntries : edit_form(e)
    \/ \E t \in SearchTexts : search(t)
    \/ \E k \in 1..MaxSeq : table_row_clicked(k)
    \/ \E t \in Times : handle_add(t)
    \/ handle_update
    \/ \E c \in BOOLEAN : handle_delete(c)
    \/ clear_form
    \/ \E picked \in BOOLEAN : export(picked)
    \/ \E c \in BOOLEAN : logout(c)

SpecUI == Init /\ [][NextUI]_vars

----------------------------------------------------------------------------
(* The dashboard over a store an earlier session filled: one row for each  *)
(* of TopN + 1 categories, one of them possibly deleted again, and up to   *)
(* MaxExtra later rows of any category                                     *)

DashCategories ==
    <<<<"c1">>, <<"c2">>, <<"c3">>, <<"c4">>, <<"c5">>, <<"c6">>, <<"c7">>, <<"c8">>,
      <<"c9">>>>

DashRow(id, category) ==
    [id |-> id, name |-> <<"w">>, category |-> category, quantity |-> 1,
     price |-> 0, added_on |-> 1]

ExtraCategories ==
    {DashCategories[k] : k \in 1..(TopN + 1)} \cup {NULL, <<>>}

DashStores ==
    {{DashRow(i, DashCategories[i]) : i \in (1..(TopN + 1)) \ {dropped}}
        \cup {DashRow(TopN + 1 + k, extra[k]) : k \in 1..Len(extra)} :
     dropped \in 0..(TopN + 1),
     extra \in UNION {[1..n -> ExtraCategories] : n \in 0..MaxExtra}}

InitDash ==
    /\ schema = TRUE
    /\ users = {default_admin}
    /\ first_run = [done |-> TRUE, users |-> {default_admin}]
    /\ products \in DashStores
    /\ seq = MaxId(products)
    /\ assigned = 1..seq
    /\ last = [op |-> "handle_login", raised |-> FALSE, result |-> TRUE]
    /\ pc = "setup_ui"
    /\ search_input = <<>>
    /\ name_input = <<>>
    /\ category_input = <<>>
    /\ quantity_input = 0
    /\ price_input = 0
    /\ selected = 0
    /\ table = <<>>
    /\ dashboard = no_dashboard

\* the end of InventoryApp.setup_ui: the first load_table
setup_ui ==
    /\ pc = "setup_ui"
    /\ pc' = "main"
    /\ load_table(products, search_input)
    /\ last' = [op |-> "setup_ui", raised |-> FALSE]
    /\ UNCHANGED <<search_input, name_input, category_input, quantity_input,
                   price_input>>
    /\ UNCHANGED dbVars

NextDash == setup_ui

SpecDash == InitDash /\ [][NextDash]_vars

----------------------------------------------------------------------------
(* The store failing: sqlite3 raises inside a store function (the file     *)
(* cannot be opened, is locked, or a statement cannot be carried out)      *)

StoreOps == {"fetch_products", "insert_product", "update_product",
             "delete_product", "check_credentials"}

\* insert_product, update_product and delete_product wrap their statements
\* in try/except and return False; fetch_products and check_credentials
\* have no handler
exception_caught(op) ==
    op \in {"insert_product", "update_product", "delete_product"}

\* what the caller gets from a store function when sqlite3 raises in it
failed_call(op, handler) ==
    [op |-> op, handler |-> handler, store_error |-> TRUE,
     raised |-> ~exception_caught(op), result |-> FALSE]

\* a store function called from outside the windows, before they open or
\* after they closed, while the store fails; nothing was committed
store_call_fails(op) ==
    /\ pc \in {"start", "exited"}
    /\ last' = failed_call(op, "none")
    /\ UNCHANGED dbVars
    /\ UNCHANGED uiVars

\* an exception leaves a Qt slot: PyQt5 from 5.5 on aborts the process,
\* earlier releases print the traceback and return to the event loop; the
\* source pins no release
unhandled_in_slot == pc' \in {"crashed", pc}

\* an exception leaves main(): the interpreter ends with a traceback
unhandled_in_main == pc' = "crashed"

\* handle_login when check_credentials fails in the slot, or when the login
\* was good and load_table cannot fetch while main() builds InventoryApp
handle_login_store_error(username_text, password_text, failing) ==
    LET user == strip(username_text)
        pwd == strip(password_text)
    IN  /\ pc = "login"
        /\ user # <<>> /\ pwd # <<>>
        /\ failing \in {"check_credentials", "fetch_products"}
        /\ last' = failed_call(failing, "handle_login")
        /\ IF failing = "check_credentials"
           THEN unhandled_in_slot
           ELSE credentials_match(users, user, pwd) /\ unhandled_in_main
        /\ UNCHANGED <<search_input, name_input, category_input, quantity_input,
                       price_input, selected, table, dashboard>>
        /\ UNCHANGED dbVars

\* the search text changes and load_table cannot fetch
search_store_error(text) ==
    /\ pc = "main"
    /\ text # search_input
    /\ last' = failed_call("fetch_products", "search")
    /\ unhandled_in_slot
    /\ search_input' = text
    /\ UNCHANGED <<name_input, category_input, quantity_input, price_input,
                   selected, table, dashboard>>
    /\ UNCHANGED dbVars

\* handle_add when insert_product fails (it returns False and the handler
\* shows "Failed to add product."), or when the insert went through, the
\* form was cleared and load_table cannot fetch
handle_add_store_error(now, failing) ==
    LET name == strip(name_input)
        id == autoincrement(products, seq)
    IN  /\ pc = "main"
        /\ name # <<>>
        /\ failing \in {"insert_product", "fetch_products"}
        /\ last' = failed_call(failing, "handle_add")
        /\ IF failing = "insert_product"
           THEN UNCHANGED dbVars /\ UNCHANGED uiVars
           ELSE /\ id <= MaxSeq
                /\ insert_succeeds(name)
                /\ products' = inserted_rows(products, id, name, strip(category_input),
                                             quantity_input, price_input, now)
                /\ seq' = id
                /\ assigned' = assigned \cup {id}
                /\ clear_form_fields
                /\ unhandled_in_slot
                /\ UNCHANGED <<schema, users, first_run, search_input, table,
                               dashboard>>

\* handle_update when update_product fails, or when the update went through,
\* the form was cleared and load_table cannot fetch
handle_update_store_error(failing) ==
    LET name == strip(name_input)
    IN  /\ pc = "main"
        /\ selected # 0
        /\ name # <<>>
        /\ failing \in {"update_product", "fetch_products"}
        /\ last' = failed_call(failing, "handle_update")
        /\ IF failing = "update_product"
           THEN UNCHANGED dbVars /\ UNCHANGED uiVars
           ELSE /\ update_succeeds(products, selected, name)
                /\ products' = updated_rows(products, selected, name,
                                            strip(category_input), quantity_input,
                                            price_input)
                /\ clear_form_fields
                /\ unhandled_in_slot
                /\ UNCHANGED <<schema, seq, users, assigned, first_run,
                               search_input, table, dashboard>>

\* handle_delete, confirmed, when delete_product fails, or when the delete
\* went through, the form was cleared and load_table cannot fetch
handle_delete_store_error(failing) ==
    /\ pc = "main"
    /\ selected # 0
    /\ failing \in {"delete_product", "fetch_products"}
    /\ last' = failed_call(failing, "handle_delete")
    /\ IF failing = "delete_product"
       THEN UNCHANGED dbVars /\ UNCHANGED uiVars
       ELSE /\ delete_succeeds(products, selected)
            /\ products' = deleted_rows(products, selected)
            /\ clear_form_fields
            /\ unhandled_in_slot
            /\ UNCHANGED <<schema, seq, users, assigned, first_run,
                           search_input, table, dashboard>>

\* export_csv or export_excel when fetch_products fails
export_store_error ==
    /\ pc = "main"
    /\ last' = failed_call("fetch_products", "export")
    /\ unhandled_in_slot
    /\ UNCHANGED <<search_input, name_input, category_input, quantity_input,
                   price_input, selected, table, dashboard>>
    /\ UNCHANGED dbVars

\* the windows, and the store functions called directly, with the store
\* failing at any call
NextFail ==
    \/ NextUI
    \/ \E op \in StoreOps : store_call_fails(op)
    \/ \E u \in LoginTexts, p \in LoginTexts,
          f \in {"check_credentials", "fetch_products"} :
          handle_login_store_error(u, p, f)
    \/ \E t \in SearchTexts : search_store_error(t)
    \/ \E t \in Times, f \in {"insert_product", "fetch_products"} :
          handle_add_store_error(t, f)
    \/ \E f \in {"update_product", "fetch_products"} : handle_update_store_error(f)
    \/ \E f \in {"delete_product", "fetch_products"} : handle_delete_store_error(f)
    \/ export_store_error

SpecFail == Init /\ [][NextFail]_vars

----------------------------------------------------------------------------
(* Properties of the store functions, checked under Spec, SpecFetch and    *)
(* SpecAuth                                                                *)

ProductOps == {"insert_product", "update_product", "delete_product", "fetch_products"}

\* the positions of a fetched list whose row carries the given four fields
\* under an id that no other listed row has and that was never handed out
FreshlyListed(listed, name, category, quantity, price, earlier) ==
    {k \in 1..Len(listed) :
        /\ listed[k].name = name
        /\ listed[k].category = category
        /\ listed[k].quantity = quantity
        /\ listed[k].price = price
        /\ listed[k].id \notin earlier
        /\ \A j \in 1..Len(listed) : j # k => listed[j].id # listed[k].id}

\* C1: after a successful insert_product(name, category, quantity, price) the
\* unfiltered fetch_products() holds exactly one row with those four values
\* whose id differs from every other row's id and from every id handed out
\* earlier in the run.
C1_InsertListsOneFreshRow ==
    [][(last'.op = "insert_product" /\ last'.result) =>
         Cardinality(FreshlyListed(fetch_rows(products', <<>>), last'.name,
                                   last'.category, last'.quantity, last'.price,
                                   assigned)) = 1]_vars

\* an insert succeeded after an earlier row had been deleted
C1_Witness ==
    /\ last.op = "insert_product"
    /\ last.result
    /\ assigned \ Ids(products) # {}

\* C2: after delete_product(id) on an id in the store, the unfiltered
\* fetch_products() has no row with that id and still has every other row
\* with all six fields as before.
C2_DeleteRemovesOnlyThatRow ==
    [][(last'.op = "delete_product" /\ last'.id \in Ids(products)) =>
         LET listed == fetch_rows(products', <<>>)
         IN  /\ \A k \in 1..Len(listed) : listed[k].id # last'.id
             /\ \A r \in products :
                    r.id # last'.id => \E k \in 1..Len(listed) : listed[k] = r]_vars

\* a delete removed one row and left another one behind
C2_Witness ==
    /\ last.op = "delete_product"
    /\ last.rowcount = 1
    /\ last.id \notin Ids(products)
    /\ products # {}

\* C3: update_product(id, name, category, quantity, price) on an id in the
\* store, with a text for name, sets these four fields of that row to the
\* given values, keeps the row's id and added_on, and leaves every other row
\* and the set of ids as they were.
C3_UpdateSetsFourFields ==
    [][(last'.op = "update_product" /\ last'.id \in Ids(products) /\ last'.name # NULL) =>
         LET old == CHOOSE r \in products : r.id = last'.id
             new == [id |-> old.id, name |-> last'.name, category |-> last'.category,
                     quantity |-> last'.quantity, price |-> last'.price,
                     added_on |-> old.added_on]
         IN  /\ Ids(products') = Ids(products)
             /\ new \in products'
             /\ products' \ {new} = products \ {old}
             /\ Cardinality(products') = Cardinality(products)]_vars

\* an update changed a row while another row was in the store
C3_Witness ==
    /\ last.op = "update_product"
    /\ last.rowcount = 1
    /\ last.result
    /\ Cardinality(products) = 2
    /\ \E r \in products : r.id = last.id /\ r.name = last.name /\ r.price = last.price

\* text contains f as a substring, letter case counting
Contains(text, f) ==
    /\ text # NULL
    /\ \E i \in 0..(Len(text) - Len(f)) : SubSeq(text, i + 1, i + Len(f)) = f

\* the rows of a fetched list are exactly the rows of want, by descending id
ListsExactly(listed, want) ==
    /\ {listed[k] : k \in 1..Len(listed)} = want
    /\ \A j, k \in 1..Len(listed) : j < k => listed[j].id > listed[k].id

\* C4 as stated: a non-empty filter f selects exactly the rows whose name or
\* category contains f as a case-sensitive substring, by descending id; an
\* empty f selects all rows.
C4_CaseSensitiveSubstring ==
    (last.op = "fetch_products" /\ ~last.raised) =>
        ListsExactly(last.rows,
                     IF last.search_text = <<>> THEN products
                     ELSE {r \in products : \/ Contains(r.name, last.search_text)
                                            \/ Contains(r.category, last.search_text)})

AsciiLetterPairs == {<<"W", "w">>, <<"I", "i">>}

SameIgnoringAsciiCase(a, b) ==
    a = b \/ <<a, b>> \in AsciiLetterPairs \/ <<b, a>> \in AsciiLetterPairs

\* u is f with every "_" replaced by one character, every "%" by any run of
\* characters, and letters free to change case
IsInstance(f, u) ==
    \E cut \in [0..Len(f) -> 0..Len(u)] :
        /\ cut[0] = 0
        /\ cut[Len(f)] = Len(u)
        /\ \A k \in 1..Len(f) :
              IF f[k] = "%"
              THEN cut[k] >= cut[k - 1]
              ELSE /\ cut[k] = cut[k - 1] + 1
                   /\ f[k] = "_" \/ SameIgnoringAsciiCase(f[k], u[cut[k]])

ContainsInstance(text, f) ==
    /\ text # NULL
    /\ \E i \in 0..Len(text) : \E j \in i..Len(text) :
          IsInstance(f, SubSeq(text, i + 1, j))

\* C4, amended: a non-empty filter f selects exactly the rows whose name or
\* category has a substring that equals f when the case of ASCII letters is
\* ignored, "_" in f stands for any one character and "%" in f for any run
\* of characters (SQLite's LIKE), by descending id; an empty f selects all
\* rows.
C4_LikeSubstring ==
    (last.op = "fetch_products" /\ ~last.raised) =>
        ListsExactly(last.rows,
                     IF last.search_text = <<>> THEN products
                     ELSE {r \in products : \/ ContainsInstance(r.name, last.search_text)
                                            \/ ContainsInstance(r.category, last.search_text)})

\* the filter "w" fetched two rows, one of them named "Wi"
C4_Witness ==
    /\ last.op = "fetch_products"
    /\ last.search_text = <<"w">>
    /\ Len(last.rows) = 2
    /\ \E k \in 1..2 : last.rows[k].name = <<"W", "i">>

\* C7: update_product or delete_product on an id that is not in the store
\* changes no row and raises nothing, and, the tables being there, returns
\* True, the value every call that changed a row returns.
C7_NoopLooksLikeSuccess ==
    [][(last'.op \in {"update_product", "delete_product"}) =>
         /\ (products' # products => (~last'.raised /\ last'.result = TRUE))
         /\ (last'.id \notin Ids(products) =>
                /\ products' = products
                /\ ~last'.raised
                /\ (schema => last'.result = TRUE))]_vars

\* an update or delete of an absent id returned True with rows in the store
C7_Witness ==
    /\ last.op \in {"update_product", "delete_product"}
    /\ last.id \notin assigned
    /\ last.result = TRUE
    /\ products # {}

\* C8: check_credentials(username, password) is true exactly when a stored
\* credential has that username and the digest of that password; with the
\* default admin as the only credential, ("admin", "admin123") is accepted
\* and ("admin", p) is refused for every other p; no product operation
\* changes any outcome.
C8_CheckCredentials ==
    /\ []((last.op = "check_credentials" /\ ~last.raised) =>
            /\ last.result =
                 (\E u \in users : /\ u.username = last.username
                                   /\ u.password_hash = sha256_hexdigest(last.password))
            /\ (users = {default_admin} /\ last.username = <<"admin">>) =>
                 (last.result = (last.password = <<"admin123">>)))
    /\ [][(last'.op \in ProductOps) =>
            \A u \in Usernames, p \in Passwords :
                credentials_match(users', u, p) = credentials_match(users, u, p)]_vars

\* the default admin, seeded on an empty users table, logged in after
\* products had been stored
C8_Witness ==
    /\ last.op = "check_credentials"
    /\ last.result = TRUE
    /\ users = {default_admin}
    /\ first_run.done
    /\ products # {}

UniqueUsers(rows) ==
    \A u, v \in rows : (u.id = v.id \/ u.username = v.username) => u = v

\* C9: init_db never touches the product rows; once it has run, every
\* further run, whatever product operations came in between, leaves the
\* users as the first run left them; it adds the default admin, and nothing
\* else, only when no user has id 1 or username "admin"; usernames stay
\* unique.
C9_InitDbIdempotent ==
    /\ [](first_run.done => users = first_run.users)
    /\ [](UniqueUsers(users))
    /\ [][(last'.op = "init_db") =>
            /\ products' = products
            /\ seq' = seq
            /\ (users' # users =>
                  /\ ~ \E u \in users : u.id = 1 \/ u.username = <<"admin">>
                  /\ users' = users \cup {default_admin})
            /\ ((~ \E u \in users : u.id = 1 \/ u.username = <<"admin">>) =>
                  default_admin \in users')]_vars

\* init_db ran again over stored products and a foreign user holding id 1
C9_Witness ==
    /\ last.op = "init_db"
    /\ last.rerun
    /\ products # {}
    /\ \E u \in users : u.id = 1 /\ u.username # <<"admin">>

----------------------------------------------------------------------------
(* Properties of the windows, checked under SpecUI and SpecDash *)

RECURSIVE QuantityOver(_)
QuantityOver(rows) ==
    IF rows = {} THEN 0
    ELSE LET r == CHOOSE q \in rows : TRUE
         IN  r.quantity + QuantityOver(rows \ {r})

RECURSIVE ValueOver(_)
ValueOver(rows) ==
    IF rows = {} THEN 0
    ELSE LET r == CHOOSE q \in rows : TRUE
         IN  r.quantity * r.price + ValueOver(rows \ {r})

\* C5: whatever was inserted, updated or deleted and whatever the search
\* text is, the dashboard shows the number of rows in the store, the sum of
\* their quantities and the sum of quantity * price; all three are 0 for an
\* empty store.
C5_DashboardTotals ==
    pc = "main" =>
        /\ dashboard.total_products = Cardinality(products)
        /\ dashboard.total_quantity = QuantityOver(products)
        /\ dashboard.total_value = ValueOver(products)
        /\ products = {} => /\ dashboard.total_products = 0
                            /\ dashboard.total_quantity = 0
                            /\ dashboard.total_value = 0

\* a search that hides one of two stored rows is active
C5_Witness ==
    /\ pc = "main"
    /\ strip(search_input) # <<>>
    /\ Cardinality(products) = 2
    /\ Len(table) = 1
    /\ dashboard.total_value > 0

\* the category a row counts under
CountsUnder(r) ==
    IF r.category = NULL \/ r.category = <<>> THEN Uncategorized ELSE r.category

RowsUnder(label) == {r \in products : CountsUnder(r) = label}

\* the row list is by descending id, so a category is met first at its
\* highest id
FirstMet(label) == MaxId(RowsUnder(label))

Included(top) == {top[k][1] : k \in 1..Len(top)}

\* C6: top_counts maps each category it includes to the number of rows
\* counting under it (empty and NULL categories under "Uncategorized"), has
\* at most TopN entries (all categories when there are no more than TopN),
\* lists them by non-increasing count, leaves out no category with a count
\* above an included one, and among equal counts orders and selects by
\* which category is met first in the descending-id row list.
C6_TopCategories ==
    pc = "main" =>
        LET top == dashboard.top_counts
            labels == {CountsUnder(r) : r \in products}
        IN  /\ Len(top) = Min(TopN, Cardinality(labels))
            /\ Cardinality(Included(top)) = Len(top)
            /\ \A k \in 1..Len(top) :
                  /\ top[k][1] \in labels
                  /\ top[k][2] = Cardinality(RowsUnder(top[k][1]))
            /\ \A j, k \in 1..Len(top) :
                  j < k => /\ top[j][2] >= top[k][2]
                           /\ top[j][2] = top[k][2] =>
                                 FirstMet(top[j][1]) > FirstMet(top[k][1])
            /\ \A c \in labels \ Included(top) : \A k \in 1..Len(top) :
                  /\ Cardinality(RowsUnder(c)) <= top[k][2]
                  /\ Cardinality(RowsUnder(c)) = top[k][2] =>
                        FirstMet(top[k][1]) > FirstMet(c)

\* more than TopN categories, a NULL category shown as "Uncategorized", and
\* a category left out that has the same count as the last one shown
C6_Witness ==
    /\ pc = "main"
    /\ Len(dashboard.top_counts) = TopN
    /\ \E r \in products : r.category = NULL
    /\ Uncategorized \in Included(dashboard.top_counts)
    /\ dashboard.top_counts[1][2] > dashboard.top_counts[TopN][2]
    /\ \E r \in products :
          /\ CountsUnder(r) \notin Included(dashboard.top_counts)
          /\ Cardinality(RowsUnder(CountsUnder(r))) = dashboard.top_counts[TopN][2]

\* C10: through the window's handlers, product rows always have pairwise
\* distinct ids, a non-empty name, quantity >= 0 and price >= 0, and a row's
\* added_on is the clock reading of the handle_add that inserted it.
C10_RowsStayValid ==
    /\ [](\A r \in products :
            /\ r.name # NULL /\ r.name # <<>>
            /\ r.quantity >= 0
            /\ r.price >= 0
            /\ \A q \in products : q.id = r.id => q = r)
    /\ [][\A r \in products' :
            IF r.id \in Ids(products)
            THEN \A q \in products : q.id = r.id => q.added_on = r.added_on
            ELSE last'.op = "handle_add" /\ r.added_on = last'.now]_vars

\* a row was updated from a form whose numbers the spin boxes had to bound
C10_Witness ==
    /\ last.op = "handle_update"
    /\ last.result
    /\ Cardinality(products) = 2
    /\ \E r \in products :
          r.id = last.id /\ r.name = <<"w">> /\ r.quantity = 0 /\ r.price = 0
    /\ \E r \in products : r.quantity = 2 /\ r.added_on = MaxTime

----------------------------------------------------------------------------
(* The store failing, checked under SpecFail *)

\* C11: when the store fails during fetch_products, insert_product,
\* update_product, delete_product or check_credentials, the function hands
\* its caller a failure result and lets no exception out, the stored rows
\* are as they were, and the application keeps running.
C11_StoreFailureReported ==
    [][(last'.op \in StoreOps /\ "store_error" \in DOMAIN last') =>
         /\ ~last'.raised
         /\ last'.result = FALSE
         /\ (last'.handler = "none" => products' = products /\ users' = users)
         /\ pc' # "crashed"]_vars

====
